---- MODULE Spec2Model ----
(***************************************************************************)
(* Model of tes.py, the project scaffolder: create_directory, create_file  *)
(* and create_project_structure acting on a filesystem, together with the  *)
(* script entry point.  Paths are sequences of segments; the invoking      *)
(* directory is the empty path and every path kept in the filesystem state *)
(* is relative to it.                                                      *)
(***************************************************************************)
EXTENDS Integers, Sequences, FiniteSets, TLC

VARIABLES dirs, files, cwd, harness, status, pc, err, printed, exitcode,
          runs, calls, writes, base, dirs0, files0, chdirs, trace

vars == <<dirs, files, cwd, harness, status, pc, err, printed, exitcode,
          runs, calls, writes, base, dirs0, files0, chdirs, trace>>

\* Bounds of the exploration.
MaxRuns == 2
MaxCalls == 2
MaxWrites == 1
MaxPre == 2

\* The directory the program is started from.
InvokingDir == << >>

\* The literal "project-root" of create_project_structure, as a path.
ProjectRoot == <<"project-root">>

\* The default value of create_file's content parameter.
DefaultContent == ""

\* Content a file can hold that the scaffolder did not write.
OldContent == "x"

\* The calls of create_project_structure after the change of directory.
Manifest ==
  <<
    [op |-> "mkdir", path |-> <<"app", "api", "client", "auth", "register">>],
    [op |-> "file", path |-> <<"app", "api", "client", "auth", "register", "route.ts">>],
    [op |-> "mkdir", path |-> <<"app", "api", "client", "auth", "verify-otp">>],
    [op |-> "file", path |-> <<"app", "api", "client", "auth", "verify-otp", "route.ts">>],
    [op |-> "mkdir", path |-> <<"app", "api", "client", "auth", "login">>],
    [op |-> "file", path |-> <<"app", "api", "client", "auth", "login", "route.ts">>],
    [op |-> "mkdir", path |-> <<"app", "api", "client", "auth", "verify-login-otp">>],
    [op |-> "file", path |-> <<"app", "api", "client", "auth", "verify-login-otp", "route.ts">>],
    [op |-> "mkdir", path |-> <<"app", "api", "client", "auth", "refresh-token">>],
    [op |-> "file", path |-> <<"app", "api", "client", "auth", "refresh-token", "route.ts">>],
    [op |-> "mkdir", path |-> <<"app", "api", "client", "auth", "logout">>],
    [op |-> "file", path |-> <<"app", "api", "client", "auth", "logout", "route.ts">>],
    [op |-> "mkdir", path |-> <<"app", "api", "client", "auth", "qr-login", "generate">>],
    [op |-> "file", path |-> <<"app", "api", "client", "auth", "qr-login", "generate", "route.ts">>],
    [op |-> "mkdir", path |-> <<"app", "api", "client", "auth", "qr-login", "verify">>],
    [op |-> "file", path |-> <<"app", "api", "client", "auth", "qr-login", "verify", "route.ts">>],
    [op |-> "mkdir", path |-> <<"app", "api", "client", "auth", "qr-login", "status">>],
    [op |-> "file", path |-> <<"app", "api", "client", "auth", "qr-login", "status", "route.ts">>],
    [op |-> "mkdir", path |-> <<"app", "api", "client", "auth", "resend-otp">>],
    [op |-> "file", path |-> <<"app", "api", "client", "auth", "resend-otp", "route.ts">>],
    [op |-> "mkdir", path |-> <<"app", "api", "client", "user", "profile">>],
    [op |-> "file", path |-> <<"app", "api", "client", "user", "profile", "route.ts">>],
    [op |-> "mkdir", path |-> <<"app", "api", "client", "user", "avatar">>],
    [op |-> "file", path |-> <<"app", "api", "client", "user", "avatar", "route.ts">>],
    [op |-> "mkdir", path |-> <<"app", "api", "client", "user", "status">>],
    [op |-> "file", path |-> <<"app", "api", "client", "user", "status", "route.ts">>],
    [op |-> "mkdir", path |-> <<"app", "api", "client", "user", "search">>],
    [op |-> "file", path |-> <<"app", "api", "client", "user", "search", "route.ts">>],
    [op |-> "mkdir", path |-> <<"app", "api", "client", "user", "contacts", "block">>],
    [op |-> "file", path |-> <<"app", "api", "client", "user", "contacts", "block", "route.ts">>],
    [op |-> "mkdir", path |-> <<"app", "api", "client", "user", "contacts", "blocked">>],
    [op |-> "file", path |-> <<"app", "api", "client", "user", "contacts", "blocked", "route.ts">>],
    [op |-> "mkdir", path |-> <<"app", "api", "client", "user", "contacts">>],
    [op |-> "file", path |-> <<"app", "api", "client", "user", "contacts", "route.ts">>],
    [op |-> "mkdir", path |-> <<"app", "api", "client", "user", "online-status">>],
    [op |-> "file", path |-> <<"app", "api", "client", "user", "online-status", "route.ts">>],
    [op |-> "mkdir", path |-> <<"app", "api", "client", "privacy", "settings">>],
    [op |-> "file", path |-> <<"app", "api", "client", "privacy", "settings", "route.ts">>],
    [op |-> "mkdir", path |-> <<"app", "api", "client", "privacy", "last-seen">>],
    [op |-> "file", path |-> <<"app", "api", "client", "privacy", "last-seen", "route.ts">>],
    [op |-> "mkdir", path |-> <<"app", "api", "client", "privacy", "profile-photo">>],
    [op |-> "file", path |-> <<"app", "api", "client", "privacy", "profile-photo", "route.ts">>],
    [op |-> "mkdir", path |-> <<"app", "api", "client", "privacy", "status">>],
    [op |-> "file", path |-> <<"app", "api", "client", "privacy", "status", "route.ts">>],
    [op |-> "mkdir", path |-> <<"app", "api", "client", "privacy", "read-receipts">>],
    [op |-> "file", path |-> <<"app", "api", "client", "privacy", "read-receipts", "route.ts">>],
    [op |-> "mkdir", path |-> <<"app", "api", "client", "chats", "[chatId]", "messages", "[messageId]", "read">>],
    [op |-> "file", path |-> <<"app", "api", "client", "chats", "[chatId]", "messages", "[messageId]", "read", "route.ts">>],
    [op |-> "mkdir", path |-> <<"app", "api", "client", "chats", "[chatId]", "messages", "[messageId]", "reactions">>],
    [op |-> "file", path |-> <<"app", "api", "client", "chats", "[chatId]", "messages", "[messageId]", "reactions", "route.ts">>],
    [op |-> "mkdir", path |-> <<"app", "api", "client", "chats", "[chatId]", "messages", "unread-count">>],
    [op |-> "file", path |-> <<"app", "api", "client", "chats", "[chatId]", "messages", "unread-count", "route.ts">>],
    [op |-> "mkdir", path |-> <<"app", "api", "client", "chats", "[chatId]", "messages", "search">>],
    [op |-> "file", path |-> <<"app", "api", "client", "chats", "[chatId]", "messages", "search", "route.ts">>],
    [op |-> "mkdir", path |-> <<"app", "api", "client", "chats", "[chatId]", "messages">>],
    [op |-> "file", path |-> <<"app", "api", "client", "chats", "[chatId]", "messages", "route.ts">>],
    [op |-> "mkdir", path |-> <<"app", "api", "client", "chats", "[chatId]", "typing">>],
    [op |-> "file", path |-> <<"app", "api", "client", "chats", "[chatId]", "typing", "route.ts">>],
    [op |-> "mkdir", path |-> <<"app", "api", "client", "chats", "[chatId]", "mute">>],
    [op |-> "file", path |-> <<"app", "api", "client", "chats", "[chatId]", "mute", "route.ts">>],
    [op |-> "mkdir", path |-> <<"app", "api", "client", "chats", "[chatId]", "clear">>],
    [op |-> "file", path |-> <<"app", "api", "client", "chats", "[chatId]", "clear", "route.ts">>],
    [op |-> "mkdir", path |-> <<"app", "api", "client", "chats", "[chatId]">>],
    [op |-> "file", path |-> <<"app", "api", "client", "chats", "[chatId]", "route.ts">>],
    [op |-> "mkdir", path |-> <<"app", "api", "client", "chats", "create">>],
    [op |-> "file", path |-> <<"app", "api", "client", "chats", "create", "route.ts">>],
    [op |-> "mkdir", path |-> <<"app", "api", "client", "chats">>],
    [op |-> "file", path |-> <<"app", "api", "client", "chats", "route.ts">>],
    [op |-> "mkdir", path |-> <<"app", "api", "client", "groups", "[groupId]", "members", "[userId]">>],
    [op |-> "file", path |-> <<"app", "api", "client", "groups", "[groupId]", "members", "[userId]", "route.ts">>],
    [op |-> "mkdir", path |-> <<"app", "api", "client", "groups", "[groupId]", "members", "promote">>],
    [op |-> "file", path |-> <<"app", "api", "client", "groups", "[groupId]", "members", "promote", "route.ts">>],
    [op |-> "mkdir", path |-> <<"app", "api", "client", "groups", "[groupId]", "members", "demote">>],
    [op |-> "file", path |-> <<"app", "api", "client", "groups", "[groupId]", "members", "demote", "route.ts">>],
    [op |-> "mkdir", path |-> <<"app", "api", "client", "groups", "[groupId]", "members">>],
    [op |-> "file", path |-> <<"app", "api", "client", "groups", "[groupId]", "members", "route.ts">>],
    [op |-> "mkdir", path |-> <<"app", "api", "client", "groups", "[groupId]", "leave">>],
    [op |-> "file", path |-> <<"app", "api", "client", "groups", "[groupId]", "leave", "route.ts">>],
    [op |-> "mkdir", path |-> <<"app", "api", "client", "groups", "[groupId]", "avatar">>],
    [op |-> "file", path |-> <<"app", "api", "client", "groups", "[groupId]", "avatar", "route.ts">>],
    [op |-> "mkdir", path |-> <<"app", "api", "client", "groups", "[groupId]", "settings">>],
    [op |-> "file", path |-> <<"app", "api", "client", "groups", "[groupId]", "settings", "route.ts">>],
    [op |-> "mkdir", path |-> <<"app", "api", "client", "groups", "[groupId]">>],
    [op |-> "file", path |-> <<"app", "api", "client", "groups", "[groupId]", "route.ts">>],
    [op |-> "mkdir", path |-> <<"app", "api", "client", "groups", "invite", "generate">>],
    [op |-> "file", path |-> <<"app", "api", "client", "groups", "invite", "generate", "route.ts">>],
    [op |-> "mkdir", path |-> <<"app", "api", "client", "groups", "invite", "join">>],
    [op |-> "file", path |-> <<"app", "api", "client", "groups", "invite", "join", "route.ts">>],
    [op |-> "mkdir", path |-> <<"app", "api", "client", "groups">>],
    [op |-> "file", path |-> <<"app", "api", "client", "groups", "route.ts">>],
    [op |-> "mkdir", path |-> <<"app", "api", "client", "media", "upload", "image">>],
    [op |-> "file", path |-> <<"app", "api", "client", "media", "upload", "image", "route.ts">>],
    [op |-> "mkdir", path |-> <<"app", "api", "client", "media", "upload", "video">>],
    [op |-> "file", path |-> <<"app", "api", "client", "media", "upload", "video", "route.ts">>],
    [op |-> "mkdir", path |-> <<"app", "api", "client", "media", "upload", "audio">>],
    [op |-> "file", path |-> <<"app", "api", "client", "media", "upload", "audio", "route.ts">>],
    [op |-> "mkdir", path |-> <<"app", "api", "client", "media", "upload", "document">>],
    [op |-> "file", path |-> <<"app", "api", "client", "media", "upload", "document", "route.ts">>],
    [op |-> "mkdir", path |-> <<"app", "api", "client", "media", "upload", "voice-note">>],
    [op |-> "file", path |-> <<"app", "api", "client", "media", "upload", "voice-note", "route.ts">>],
    [op |-> "mkdir", path |-> <<"app", "api", "client", "media", "download", "[fileId]">>],
    [op |-> "file", path |-> <<"app", "api", "client", "media", "download", "[fileId]", "route.ts">>],
    [op |-> "mkdir", path |-> <<"app", "api", "client", "media", "thumbnail", "[fileId]">>],
    [op |-> "file", path |-> <<"app", "api", "client", "media", "thumbnail", "[fileId]", "route.ts">>],
    [op |-> "mkdir", path |-> <<"app", "api", "client", "media", "delete", "[fileId]">>],
    [op |-> "file", path |-> <<"app", "api", "client", "media", "delete", "[fileId]", "route.ts">>],
    [op |-> "mkdir", path |-> <<"app", "api", "client", "calls", "initiate">>],
    [op |-> "file", path |-> <<"app", "api", "client", "calls", "initiate", "route.ts">>],
    [op |-> "mkdir", path |-> <<"app", "api", "client", "calls", "answer">>],
    [op |-> "file", path |-> <<"app", "api", "client", "calls", "answer", "route.ts">>],
    [op |-> "mkdir", path |-> <<"app", "api", "client", "calls", "reject">>],
    [op |-> "file", path |-> <<"app", "api", "client", "calls", "reject", "route.ts">>],
    [op |-> "mkdir", path |-> <<"app", "api", "client", "calls", "end">>],
    [op |-> "file", path |-> <<"app", "api", "client", "calls", "end", "route.ts">>],
    [op |-> "mkdir", path |-> <<"app", "api", "client", "calls", "[callId]", "ice-candidates">>],
    [op |-> "file", path |-> <<"app", "api", "client", "calls", "[callId]", "ice-candidates", "route.ts">>],
    [op |-> "mkdir", path |-> <<"app", "api", "client", "calls", "[callId]", "offer">>],
    [op |-> "file", path |-> <<"app", "api", "client", "calls", "[callId]", "offer", "route.ts">>],
    [op |-> "mkdir", path |-> <<"app", "api", "client", "calls", "[callId]", "answer-sdp">>],
    [op |-> "file", path |-> <<"app", "api", "client", "calls", "[callId]", "answer-sdp", "route.ts">>],
    [op |-> "mkdir", path |-> <<"app", "api", "client", "calls", "[callId]">>],
    [op |-> "file", path |-> <<"app", "api", "client", "calls", "[callId]", "route.ts">>],
    [op |-> "mkdir", path |-> <<"app", "api", "client", "calls", "turn-credentials">>],
    [op |-> "file", path |-> <<"app", "api", "client", "calls", "turn-credentials", "route.ts">>],
    [op |-> "mkdir", path |-> <<"app", "api", "client", "calls", "group-call", "create">>],
    [op |-> "file", path |-> <<"app", "api", "client", "calls", "group-call", "create", "route.ts">>],
    [op |-> "mkdir", path |-> <<"app", "api", "client", "calls", "group-call", "join">>],
    [op |-> "file", path |-> <<"app", "api", "client", "calls", "group-call", "join", "route.ts">>],
    [op |-> "mkdir", path |-> <<"app", "api", "client", "calls">>],
    [op |-> "file", path |-> <<"app", "api", "client", "calls", "route.ts">>],
    [op |-> "mkdir", path |-> <<"app", "api", "client", "status", "[statusId]", "view">>],
    [op |-> "file", path |-> <<"app", "api", "client", "status", "[statusId]", "view", "route.ts">>],
    [op |-> "mkdir", path |-> <<"app", "api", "client", "status", "[statusId]", "viewers">>],
    [op |-> "file", path |-> <<"app", "api", "client", "status", "[statusId]", "viewers", "route.ts">>],
    [op |-> "mkdir", path |-> <<"app", "api", "client", "status", "[statusId]">>],
    [op |-> "file", path |-> <<"app", "api", "client", "status", "[statusId]", "route.ts">>],
    [op |-> "mkdir", path |-> <<"app", "api", "client", "status", "my-status">>],
    [op |-> "file", path |-> <<"app", "api", "client", "status", "my-status", "route.ts">>],
    [op |-> "mkdir", path |-> <<"app", "api", "client", "status", "recent">>],
    [op |-> "file", path |-> <<"app", "api", "client", "status", "recent", "route.ts">>],
    [op |-> "mkdir", path |-> <<"app", "api", "client", "status">>],
    [op |-> "file", path |-> <<"app", "api", "client", "status", "route.ts">>],
    [op |-> "mkdir", path |-> <<"app", "api", "client", "notifications", "read">>],
    [op |-> "file", path |-> <<"app", "api", "client", "notifications", "read", "route.ts">>],
    [op |-> "mkdir", path |-> <<"app", "api", "client", "notifications", "settings">>],
    [op |-> "file", path |-> <<"app", "api", "client", "notifications", "settings", "route.ts">>],
    [op |-> "mkdir", path |-> <<"app", "api", "client", "notifications", "push-token">>],
    [op |-> "file", path |-> <<"app", "api", "client", "notifications", "push-token", "route.ts">>],
    [op |-> "mkdir", path |-> <<"app", "api", "client", "notifications">>],
    [op |-> "file", path |-> <<"app", "api", "client", "notifications", "route.ts">>],
    [op |-> "mkdir", path |-> <<"app", "api", "client", "sync", "messages">>],
    [op |-> "file", path |-> <<"app", "api", "client", "sync", "messages", "route.ts">>],
    [op |-> "mkdir", path |-> <<"app", "api", "client", "sync", "chats">>],
    [op |-> "file", path |-> <<"app", "api", "client", "sync", "chats", "route.ts">>],
    [op |-> "mkdir", path |-> <<"app", "api", "client", "sync", "full">>],
    [op |-> "file", path |-> <<"app", "api", "client", "sync", "full", "route.ts">>],
    [op |-> "mkdir", path |-> <<"app", "api", "admin", "auth", "login">>],
    [op |-> "file", path |-> <<"app", "api", "admin", "auth", "login", "route.ts">>],
    [op |-> "mkdir", path |-> <<"app", "api", "admin", "auth", "logout">>],
    [op |-> "file", path |-> <<"app", "api", "admin", "auth", "logout", "route.ts">>],
    [op |-> "mkdir", path |-> <<"app", "api", "admin", "auth", "verify">>],
    [op |-> "file", path |-> <<"app", "api", "admin", "auth", "verify", "route.ts">>],
    [op |-> "mkdir", path |-> <<"app", "api", "admin", "dashboard", "stats">>],
    [op |-> "file", path |-> <<"app", "api", "admin", "dashboard", "stats", "route.ts">>],
    [op |-> "mkdir", path |-> <<"app", "api", "admin", "dashboard", "analytics">>],
    [op |-> "file", path |-> <<"app", "api", "admin", "dashboard", "analytics", "route.ts">>],
    [op |-> "mkdir", path |-> <<"app", "api", "admin", "dashboard", "system-health">>],
    [op |-> "file", path |-> <<"app", "api", "admin", "dashboard", "system-health", "route.ts">>],
    [op |-> "mkdir", path |-> <<"app", "api", "admin", "users", "[userId]", "ban">>],
    [op |-> "file", path |-> <<"app", "api", "admin", "users", "[userId]", "ban", "route.ts">>],
    [op |-> "mkdir", path |-> <<"app", "api", "admin", "users", "[userId]", "unban">>],
    [op |-> "file", path |-> <<"app", "api", "admin", "users", "[userId]", "unban", "route.ts">>],
    [op |-> "mkdir", path |-> <<"app", "api", "admin", "users", "[userId]", "chats">>],
    [op |-> "file", path |-> <<"app", "api", "admin", "users", "[userId]", "chats", "route.ts">>],
    [op |-> "mkdir", path |-> <<"app", "api", "admin", "users", "[userId]", "activity">>],
    [op |-> "file", path |-> <<"app", "api", "admin", "users", "[userId]", "activity", "route.ts">>],
    [op |-> "mkdir", path |-> <<"app", "api", "admin", "users", "[userId]">>],
    [op |-> "file", path |-> <<"app", "api", "admin", "users", "[userId]", "route.ts">>],
    [op |-> "mkdir", path |-> <<"app", "api", "admin", "users", "search">>],
    [op |-> "file", path |-> <<"app", "api", "admin", "users", "search", "route.ts">>],
    [op |-> "mkdir", path |-> <<"app", "api", "admin", "users", "bulk-actions">>],
    [op |-> "file", path |-> <<"app", "api", "admin", "users", "bulk-actions", "route.ts">>],
    [op |-> "mkdir", path |-> <<"app", "api", "admin", "users", "export">>],
    [op |-> "file", path |-> <<"app", "api", "admin", "users", "export", "route.ts">>],
    [op |-> "mkdir", path |-> <<"app", "api", "admin", "users">>],
    [op |-> "file", path |-> <<"app", "api", "admin", "users", "route.ts">>],
    [op |-> "mkdir", path |-> <<"app", "api", "admin", "messages", "[messageId]", "flag">>],
    [op |-> "file", path |-> <<"app", "api", "admin", "messages", "[messageId]", "flag", "route.ts">>],
    [op |-> "mkdir", path |-> <<"app", "api", "admin", "messages", "[messageId]">>],
    [op |-> "file", path |-> <<"app", "api", "admin", "messages", "[messageId]", "route.ts">>],
    [op |-> "mkdir", path |-> <<"app", "api", "admin", "messages", "reported">>],
    [op |-> "file", path |-> <<"app", "api", "admin", "messages", "reported", "route.ts">>],
    [op |-> "mkdir", path |-> <<"app", "api", "admin", "messages", "search">>],
    [op |-> "file", path |-> <<"app", "api", "admin", "messages", "search", "route.ts">>],
    [op |-> "mkdir", path |-> <<"app", "api", "admin", "messages", "analytics">>],
    [op |-> "file", path |-> <<"app", "api", "admin", "messages", "analytics", "route.ts">>],
    [op |-> "mkdir", path |-> <<"app", "api", "admin", "messages">>],
    [op |-> "file", path |-> <<"app", "api", "admin", "messages", "route.ts">>],
    [op |-> "mkdir", path |-> <<"app", "api", "admin", "groups", "[groupId]", "members">>],
    [op |-> "file", path |-> <<"app", "api", "admin", "groups", "[groupId]", "members", "route.ts">>],
    [op |-> "mkdir", path |-> <<"app", "api", "admin", "groups", "[groupId]", "messages">>],
    [op |-> "file", path |-> <<"app", "api", "admin", "groups", "[groupId]", "messages", "route.ts">>],
    [op |-> "mkdir", path |-> <<"app", "api", "admin", "groups", "[groupId]">>],
    [op |-> "file", path |-> <<"app", "api", "admin", "groups", "[groupId]", "route.ts">>],
    [op |-> "mkdir", path |-> <<"app", "api", "admin", "groups", "analytics">>],
    [op |-> "file", path |-> <<"app", "api", "admin", "groups", "analytics", "route.ts">>],
    [op |-> "mkdir", path |-> <<"app", "api", "admin", "groups">>],
    [op |-> "file", path |-> <<"app", "api", "admin", "groups", "route.ts">>],
    [op |-> "mkdir", path |-> <<"app", "api", "admin", "media", "[fileId]">>],
    [op |-> "file", path |-> <<"app", "api", "admin", "media", "[fileId]", "route.ts">>],
    [op |-> "mkdir", path |-> <<"app", "api", "admin", "media", "storage">>],
    [op |-> "file", path |-> <<"app", "api", "admin", "media", "storage", "route.ts">>],
    [op |-> "mkdir", path |-> <<"app", "api", "admin", "media", "cleanup">>],
    [op |-> "file", path |-> <<"app", "api", "admin", "media", "cleanup", "route.ts">>],
    [op |-> "mkdir", path |-> <<"app", "api", "admin", "media">>],
    [op |-> "file", path |-> <<"app", "api", "admin", "media", "route.ts">>],
    [op |-> "mkdir", path |-> <<"app", "api", "admin", "reports", "[reportId]", "resolve">>],
    [op |-> "file", path |-> <<"app", "api", "admin", "reports", "[reportId]", "resolve", "route.ts">>],
    [op |-> "mkdir", path |-> <<"app", "api", "admin", "reports", "[reportId]">>],
    [op |-> "file", path |-> <<"app", "api", "admin", "reports", "[reportId]", "route.ts">>],
    [op |-> "mkdir", path |-> <<"app", "api", "admin", "reports", "types">>],
    [op |-> "file", path |-> <<"app", "api", "admin", "reports", "types", "route.ts">>],
    [op |-> "mkdir", path |-> <<"app", "api", "admin", "reports">>],
    [op |-> "file", path |-> <<"app", "api", "admin", "reports", "route.ts">>],
    [op |-> "mkdir", path |-> <<"app", "api", "admin", "settings", "system">>],
    [op |-> "file", path |-> <<"app", "api", "admin", "settings", "system", "route.ts">>],
    [op |-> "mkdir", path |-> <<"app", "api", "admin", "settings", "notifications">>],
    [op |-> "file", path |-> <<"app", "api", "admin", "settings", "notifications", "route.ts">>],
    [op |-> "mkdir", path |-> <<"app", "api", "admin", "settings", "security">>],
    [op |-> "file", path |-> <<"app", "api", "admin", "settings", "security", "route.ts">>],
    [op |-> "mkdir", path |-> <<"app", "api", "admin", "settings", "maintenance">>],
    [op |-> "file", path |-> <<"app", "api", "admin", "settings", "maintenance", "route.ts">>],
    [op |-> "mkdir", path |-> <<"app", "api", "admin", "logs", "errors">>],
    [op |-> "file", path |-> <<"app", "api", "admin", "logs", "errors", "route.ts">>],
    [op |-> "mkdir", path |-> <<"app", "api", "admin", "logs", "audit">>],
    [op |-> "file", path |-> <<"app", "api", "admin", "logs", "audit", "route.ts">>],
    [op |-> "mkdir", path |-> <<"app", "api", "admin", "logs", "export">>],
    [op |-> "file", path |-> <<"app", "api", "admin", "logs", "export", "route.ts">>],
    [op |-> "mkdir", path |-> <<"app", "api", "admin", "logs">>],
    [op |-> "file", path |-> <<"app", "api", "admin", "logs", "route.ts">>],
    [op |-> "mkdir", path |-> <<"app", "api", "admin", "backup", "create">>],
    [op |-> "file", path |-> <<"app", "api", "admin", "backup", "create", "route.ts">>],
    [op |-> "mkdir", path |-> <<"app", "api", "admin", "backup", "restore">>],
    [op |-> "file", path |-> <<"app", "api", "admin", "backup", "restore", "route.ts">>],
    [op |-> "mkdir", path |-> <<"app", "api", "admin", "backup", "list">>],
    [op |-> "file", path |-> <<"app", "api", "admin", "backup", "list", "route.ts">>],
    [op |-> "mkdir", path |-> <<"app", "api", "webhook", "smtp">>],
    [op |-> "file", path |-> <<"app", "api", "webhook", "smtp", "route.ts">>],
    [op |-> "mkdir", path |-> <<"app", "api", "webhook", "push-notifications">>],
    [op |-> "file", path |-> <<"app", "api", "webhook", "push-notifications", "route.ts">>],
    [op |-> "mkdir", path |-> <<"app", "api", "webhook", "payment">>],
    [op |-> "file", path |-> <<"app", "api", "webhook", "payment", "route.ts">>],
    [op |-> "mkdir", path |-> <<"app", "api", "health">>],
    [op |-> "file", path |-> <<"app", "api", "health", "route.ts">>],
    [op |-> "file", path |-> <<"app", "globals.css">>],
    [op |-> "mkdir", path |-> <<"lib", "auth">>],
    [op |-> "file", path |-> <<"lib", "auth", "jwt.ts">>],
    [op |-> "file", path |-> <<"lib", "auth", "otp.ts">>],
    [op |-> "file", path |-> <<"lib", "auth", "qr-auth.ts">>],
    [op |-> "file", path |-> <<"lib", "auth", "middleware.ts">>],
    [op |-> "mkdir", path |-> <<"lib", "database", "models">>],
    [op |-> "file", path |-> <<"lib", "database", "models", "user.ts">>],
    [op |-> "file", path |-> <<"lib", "database", "models", "chat.ts">>],
    [op |-> "file", path |-> <<"lib", "database", "models", "message.ts">>],
    [op |-> "file", path |-> <<"lib", "database", "models", "group.ts">>],
    [op |-> "file", path |-> <<"lib", "database", "models", "media.ts">>],
    [op |-> "file", path |-> <<"lib", "database", "models", "call.ts">>],
    [op |-> "file", path |-> <<"lib", "database", "models", "status.ts">>],
    [op |-> "file", path |-> <<"lib", "database", "models", "notification.ts">>],
    [op |-> "file", path |-> <<"lib", "database", "models", "report.ts">>],
    [op |-> "file", path |-> <<"lib", "database", "models", "admin.ts">>],
    [op |-> "mkdir", path |-> <<"lib", "database", "schemas">>],
    [op |-> "file", path |-> <<"lib", "database", "schemas", "user.ts">>],
    [op |-> "file", path |-> <<"lib", "database", "schemas", "message.ts">>],
    [op |-> "file", path |-> <<"lib", "database", "schemas", "auth.ts">>],
    [op |-> "file", path |-> <<"lib", "database", "schemas", "media.ts">>],
    [op |-> "file", path |-> <<"lib", "database", "schemas", "group.ts">>],
    [op |-> "file", path |-> <<"lib", "database", "schemas", "call.ts">>],
    [op |-> "mkdir", path |-> <<"lib", "database", "repositories">>],
    [op |-> "file", path |-> <<"lib", "database", "repositories", "user.ts">>],
    [op |-> "file", path |-> <<"lib", "database", "repositories", "chat.ts">>],
    [op |-> "file", path |-> <<"lib", "database", "repositories", "message.ts">>],
    [op |-> "file", path |-> <<"lib", "database", "repositories", "group.ts">>],
    [op |-> "file", path |-> <<"lib", "database", "repositories", "media.ts">>],
    [op |-> "file", path |-> <<"lib", "database", "repositories", "call.ts">>],
    [op |-> "file", path |-> <<"lib", "database", "repositories", "status.ts">>],
    [op |-> "file", path |-> <<"lib", "database", "mongodb.ts">>],
    [op |-> "mkdir", path |-> <<"lib", "realtime", "events">>],
    [op |-> "file", path |-> <<"lib", "realtime", "events", "messaging.ts">>],
    [op |-> "file", path |-> <<"lib", "realtime", "events", "presence.ts">>],
    [op |-> "file", path |-> <<"lib", "realtime", "events", "typing.ts">>],
    [op |-> "file", path |-> <<"lib", "realtime", "events", "calls.ts">>],
    [op |-> "file", path |-> <<"lib", "realtime", "events", "groups.ts">>],
    [op |-> "mkdir", path |-> <<"lib", "realtime", "middleware">>],
    [op |-> "file", path |-> <<"lib", "realtime", "middleware", "auth.ts">>],
    [op |-> "file", path |-> <<"lib", "realtime", "middleware", "rate-limit.ts">>],
    [op |-> "file", path |-> <<"lib", "realtime", "socket.ts">>],
    [op |-> "mkdir", path |-> <<"lib", "media">>],
    [op |-> "file", path |-> <<"lib", "media", "s3.ts">>],
    [op |-> "file", path |-> <<"lib", "media", "upload.ts">>],
    [op |-> "file", path |-> <<"lib", "media", "compression.ts">>],
    [op |-> "file", path |-> <<"lib", "media", "thumbnail.ts">>],
    [op |-> "file", path |-> <<"lib", "media", "validation.ts">>],
    [op |-> "mkdir", path |-> <<"lib", "communication", "templates">>],
    [op |-> "file", path |-> <<"lib", "communication", "templates", "email.ts">>],
    [op |-> "file", path |-> <<"lib", "communication", "templates", "sms.ts">>],
    [op |-> "file", path |-> <<"lib", "communication", "smtp.ts">>],
    [op |-> "file", path |-> <<"lib", "communication", "sms.ts">>],
    [op |-> "file", path |-> <<"lib", "communication", "push-notifications.ts">>],
    [op |-> "mkdir", path |-> <<"lib", "webrtc">>],
    [op |-> "file", path |-> <<"lib", "webrtc", "coturn.ts">>],
    [op |-> "file", path |-> <<"lib", "webrtc", "signaling.ts">>],
    [op |-> "file", path |-> <<"lib", "webrtc", "ice-candidates.ts">>],
    [op |-> "file", path |-> <<"lib", "webrtc", "call-manager.ts">>],
    [op |-> "mkdir", path |-> <<"lib", "security">>],
    [op |-> "file", path |-> <<"lib", "security", "encryption.ts">>],
    [op |-> "file", path |-> <<"lib", "security", "rate-limiting.ts">>],
    [op |-> "file", path |-> <<"lib", "security", "validation.ts">>],
    [op |-> "file", path |-> <<"lib", "security", "sanitization.ts">>],
    [op |-> "file", path |-> <<"lib", "security", "permissions.ts">>],
    [op |-> "mkdir", path |-> <<"lib", "utils">>],
    [op |-> "file", path |-> <<"lib", "utils", "constants.ts">>],
    [op |-> "file", path |-> <<"lib", "utils", "helpers.ts">>],
    [op |-> "file", path |-> <<"lib", "utils", "date.ts">>],
    [op |-> "file", path |-> <<"lib", "utils", "crypto.ts">>],
    [op |-> "file", path |-> <<"lib", "utils", "pagination.ts">>],
    [op |-> "file", path |-> <<"lib", "utils", "error-handler.ts">>],
    [op |-> "mkdir", path |-> <<"lib", "monitoring">>],
    [op |-> "file", path |-> <<"lib", "monitoring", "analytics.ts">>],
    [op |-> "file", path |-> <<"lib", "monitoring", "logging.ts">>],
    [op |-> "file", path |-> <<"lib", "monitoring", "metrics.ts">>],
    [op |-> "file", path |-> <<"lib", "monitoring", "health-check.ts">>],
    [op |-> "mkdir", path |-> <<"lib", "config">>],
    [op |-> "file", path |-> <<"lib", "config", "environment.ts">>],
    [op |-> "file", path |-> <<"lib", "config", "database.ts">>],
    [op |-> "file", path |-> <<"lib", "config", "redis.ts">>],
    [op |-> "file", path |-> <<"lib", "config", "cors.ts">>],
    [op |-> "file", path |-> <<"lib", "config", "rate-limits.ts">>],
    [op |-> "file", path |-> <<"middleware.ts">>],
    [op |-> "file", path |-> <<"next.config.js">>],
    [op |-> "file", path |-> <<"package.json">>],
    [op |-> "file", path |-> <<"tsconfig.json">>]
  >>

\* Variant: the os.chdir statement is missing.
ProgramWithoutChdir ==
  << [op |-> "mkdir", path |-> ProjectRoot] >> \o Manifest

\* Variant: os.chdir comes before the root directory is ensured.
ProgramChdirFirst ==
  << [op |-> "chdir", path |-> ProjectRoot],
     [op |-> "mkdir", path |-> ProjectRoot] >> \o Manifest

\* Variant: create_file("lib/auth/jwt.ts") comes before
\* create_directory("lib/auth").
ProgramFileBeforeDirectory ==
  LET P == << [op |-> "mkdir", path |-> ProjectRoot],
              [op |-> "chdir", path |-> ProjectRoot] >> \o Manifest
      k == CHOOSE i \in 1..Len(P) : P[i].path = <<"lib", "auth">>
  IN  [i \in 1..Len(P) |-> IF i = k THEN P[k + 1]
                           ELSE IF i = k + 1 THEN P[k] ELSE P[i]]

\* Variant: create_file("lib/database/mongodb.ts") names "lib/realtime"
\* instead, a path create_directory("lib/realtime/events") passes through.
ProgramFileShadowsDirectory ==
  LET P == << [op |-> "mkdir", path |-> ProjectRoot],
              [op |-> "chdir", path |-> ProjectRoot] >> \o Manifest
      k == CHOOSE i \in 1..Len(P) :
             P[i].path = <<"lib", "database", "mongodb.ts">>
  IN  [i \in 1..Len(P) |->
         IF i = k THEN [op |-> "file", path |-> <<"lib", "realtime">>]
         ELSE P[i]]

\* The body of create_project_structure, one entry per statement.
Program ==
  << [op |-> "mkdir", path |-> ProjectRoot],
     [op |-> "chdir", path |-> ProjectRoot] >> \o Manifest

----------------------------------------------------------------------------
\* Paths

Parent(p) == SubSeq(p, 1, Len(p) - 1)

\* The prefixes of p of length 1..Len(p).
Prefixes(p) == { SubSeq(p, 1, k) : k \in 1..Len(p) }

ProperPrefixes(p) == { SubSeq(p, 1, k) : k \in 1..(Len(p) - 1) }

\* Variant: a relative path is taken from the invoking directory.
ResolveFromInvoking(c, p) == p

\* A relative path is resolved against the process working directory.
Resolve(c, p) == c \o p

\* os.path.exists: the path names a directory or a file.
Exists(D, FN, p) == p \in D \/ p \in FN

----------------------------------------------------------------------------
\* The filesystem calls.  Each returns the new state and the error raised
\* ("none" when the call succeeds).  n is the number of mkdir system calls
\* the environment lets succeed before it fails one with PermissionError.

Mkdir(D, FN, p, n) ==
  IF Exists(D, FN, p) THEN [dirs |-> D, err |-> "FileExistsError", n |-> n]
  ELSE IF Parent(p) \in D
       THEN IF n = 0 THEN [dirs |-> D, err |-> "PermissionError", n |-> n]
            ELSE [dirs |-> D \cup {p}, err |-> "none", n |-> n - 1]
  ELSE IF \E q \in ProperPrefixes(p) : q \in FN
       THEN [dirs |-> D, err |-> "NotADirectoryError", n |-> n]
  ELSE [dirs |-> D, err |-> "FileNotFoundError", n |-> n]

RECURSIVE Makedirs(_, _, _, _, _, _)
Makedirs(D, FN, c, name, exist_ok, n) ==
  LET head == Parent(name)
      pre  == IF Len(name) > 1 /\ ~Exists(D, FN, Resolve(c, head))
              THEN Makedirs(D, FN, c, head, exist_ok, n)
              ELSE [dirs |-> D, err |-> "none", n |-> n]
  IN  IF pre.err \notin {"none", "FileExistsError"} THEN pre
      ELSE LET m == Mkdir(pre.dirs, FN, Resolve(c, name), pre.n)
           IN  IF m.err = "none" THEN m
               ELSE IF ~exist_ok \/ Resolve(c, name) \notin pre.dirs THEN m
               ELSE [dirs |-> pre.dirs, err |-> "none", n |-> pre.n]

\* Variant: os.makedirs(path) without exist_ok.
create_directoryNoExistOk(D, FN, c, path, n) ==
  Makedirs(D, FN, c, path, FALSE, n)

\* Variant: an existing directory is removed and made anew.
create_directoryFresh(D, FN, c, path, n) ==
  LET p == Resolve(c, path)
      kept == { d \in D : ~(Len(d) >= Len(p) /\ SubSeq(d, 1, Len(p)) = p) }
  IN  Makedirs(kept, FN, c, path, TRUE, n)

create_directory(D, FN, c, path, n) == Makedirs(D, FN, c, path, TRUE, n)

\* Variant: open(path, 'x'), which refuses a file that exists.
OpenExclusive(D, FN, p, fault) ==
  IF p \in D \/ p \in FN THEN "FileExistsError"
  ELSE IF \E q \in ProperPrefixes(p) : q \in FN THEN "NotADirectoryError"
  ELSE IF Parent(p) \notin D THEN "FileNotFoundError"
  ELSE IF fault THEN "PermissionError"
  ELSE "none"

\* open(path, 'w'): the error raised, "none" when the file can be opened.
OpenW(D, FN, p, fault) ==
  IF p \in D THEN "IsADirectoryError"
  ELSE IF \E q \in ProperPrefixes(p) : q \in FN THEN "NotADirectoryError"
  ELSE IF Parent(p) \notin D THEN "FileNotFoundError"
  ELSE IF fault THEN "PermissionError"
  ELSE "none"

\* Variant: the file is opened with mode 'a'.
WriteAppend(F, p, content) ==
  [f \in DOMAIN F \cup {p} |->
     IF f = p /\ p \in DOMAIN F THEN F[p] \o content
     ELSE IF f = p THEN content ELSE F[f]]

\* The file table after writing content to p opened with mode 'w'.
WriteW(F, p, content) ==
  [f \in DOMAIN F \cup {p} |-> IF f = p THEN content ELSE F[f]]

create_file(D, F, c, path, content, fault) ==
  LET p == Resolve(c, path)
      e == OpenW(D, DOMAIN F, p, fault)
  IN  IF e = "none" THEN [files |-> WriteW(F, p, content), err |-> "none"]
      ELSE [files |-> F, err |-> e]

\* os.chdir(path): the new working directory and the error raised.
Chdir(D, FN, c, path, fault) ==
  LET p == Resolve(c, path)
  IN  IF p \in D
      THEN IF fault THEN [cwd |-> c, err |-> "PermissionError"]
           ELSE [cwd |-> p, err |-> "none"]
      ELSE IF \E q \in Prefixes(p) : q \in FN
           THEN [cwd |-> c, err |-> "NotADirectoryError"]
      ELSE [cwd |-> c, err |-> "FileNotFoundError"]

----------------------------------------------------------------------------
\* Control flow of create_project_structure

\* A statement that returns normally passes control to the next one; the
\* function returns after the last.
OnSuccess(i) ==
  [pc |-> i + 1,
   status |-> IF i = Len(Program) THEN "returned" ELSE "running"]

\* Variant: each statement is wrapped in try/except and the next one runs.
OnErrorContinue(i) ==
  [pc |-> i + 1,
   status |-> IF i = Len(Program) THEN "returned" ELSE "running"]

\* Variant: the function catches the exception and returns.
OnErrorReturn(i) == [pc |-> i, status |-> "returned"]

\* No statement is inside a try block: an exception leaves the function.
OnError(i) == [pc |-> i, status |-> "raised"]

----------------------------------------------------------------------------
\* Initial filesystems: a few entries that may exist before the first run.

PreDirPool ==
  { ProjectRoot, ProjectRoot \o <<"app">>,
    ProjectRoot \o <<"package.json">> }

PreFilePool ==
  { <<"package.json">>, ProjectRoot,
    ProjectRoot \o <<"app">>, ProjectRoot \o <<"package.json">>,
    ProjectRoot \o <<"README.md">> }

WellFormed(D, FN) ==
  /\ InvokingDir \in D
  /\ D \cap FN = {}
  /\ \A p \in (D \cup FN) \ {InvokingDir} : Parent(p) \in D

InitTrees ==
  { t \in [d : SUBSET PreDirPool, f : SUBSET PreFilePool] :
      /\ Cardinality(t.d) + Cardinality(t.f) <= MaxPre
      /\ WellFormed(t.d \cup {InvokingDir}, t.f) }

Init ==
  /\ \E t \in InitTrees :
        /\ dirs = t.d \cup {InvokingDir}
        /\ files = [f \in t.f |-> OldContent]
  /\ harness \in {"script", "caller"}
  /\ cwd = InvokingDir
  /\ status = "idle"
  /\ pc = 1
  /\ err = "none"
  /\ printed = 0
  /\ exitcode = -1
  /\ runs = 0
  /\ calls = 0
  /\ writes = 0
  /\ base = InvokingDir
  /\ dirs0 = dirs
  /\ files0 = files
  /\ chdirs = 0
  /\ trace = << >>

----------------------------------------------------------------------------
\* Entering create_project_structure

BeginCall(c) ==
  /\ cwd' = c
  /\ base' = c
  /\ dirs0' = dirs
  /\ files0' = files
  /\ status' = "running"
  /\ pc' = 1
  /\ err' = "none"
  /\ chdirs' = 0
  /\ trace' = << >>
  /\ UNCHANGED <<dirs, files, harness, writes>>

\* python tes.py: a new process, started in the invoking directory.
StartScript ==
  /\ harness = "script"
  /\ status = "idle" \/ (status = "exited" /\ exitcode = 0)
  /\ runs < MaxRuns
  /\ runs' = runs + 1
  /\ calls' = 1
  /\ printed' = 0
  /\ exitcode' = -1
  /\ BeginCall(InvokingDir)

\* A process that imports the module and calls create_project_structure.
StartCaller ==
  /\ harness = "caller"
  /\ status = "idle"
  /\ runs' = runs + 1
  /\ calls' = 1
  /\ printed' = 0
  /\ exitcode' = -1
  /\ BeginCall(InvokingDir)

\* The same process calls create_project_structure again.
CallAgain ==
  /\ harness = "caller"
  /\ status = "returned"
  /\ calls < MaxCalls
  /\ calls' = calls + 1
  /\ UNCHANGED <<runs, printed, exitcode>>
  /\ BeginCall(cwd)

----------------------------------------------------------------------------
\* The statements of create_project_structure

Running(kind) ==
  /\ status = "running"
  /\ pc \in 1..Len(Program)
  /\ Program[pc].op = kind

Control(k) ==
  /\ pc' = k.pc
  /\ status' = k.status
  /\ trace' = Append(trace, pc)
  /\ UNCHANGED <<harness, printed, exitcode, runs, calls, writes,
                 base, dirs0, files0>>

CreateDirectory ==
  /\ Running("mkdir")
  /\ LET path == Program[pc].path
         r == create_directory(dirs, DOMAIN files, cwd, path, Len(path))
     IN  /\ r.err = "none"
         /\ dirs' = r.dirs
         /\ err' = "none"
         /\ Control(OnSuccess(pc))
  /\ UNCHANGED <<files, cwd, chdirs>>

CreateDirectoryRaise ==
  /\ Running("mkdir")
  /\ LET path == Program[pc].path
     IN  \E n \in 0..Len(path) :
           LET r == create_directory(dirs, DOMAIN files, cwd, path, n)
           IN  /\ r.err # "none"
               /\ dirs' = r.dirs
               /\ err' = r.err
               /\ Control(OnError(pc))
  /\ UNCHANGED <<files, cwd, chdirs>>

ChangeDirectory ==
  /\ Running("chdir")
  /\ LET r == Chdir(dirs, DOMAIN files, cwd, Program[pc].path, FALSE)
     IN  /\ r.err = "none"
         /\ cwd' = r.cwd
         /\ chdirs' = IF r.cwd # cwd THEN chdirs + 1 ELSE chdirs
         /\ err' = "none"
         /\ Control(OnSuccess(pc))
  /\ UNCHANGED <<dirs, files>>

ChangeDirectoryRaise ==
  /\ Running("chdir")
  /\ \E fault \in BOOLEAN :
       LET r == Chdir(dirs, DOMAIN files, cwd, Program[pc].path, fault)
       IN  /\ r.err # "none"
           /\ cwd' = r.cwd
           /\ err' = r.err
           /\ Control(OnError(pc))
  /\ UNCHANGED <<dirs, files, chdirs>>

CreateFile ==
  /\ Running("file")
  /\ LET r == create_file(dirs, files, cwd, Program[pc].path,
                          DefaultContent, FALSE)
     IN  /\ r.err = "none"
         /\ files' = r.files
         /\ err' = "none"
         /\ Control(OnSuccess(pc))
  /\ UNCHANGED <<dirs, cwd, chdirs>>

CreateFileRaise ==
  /\ Running("file")
  /\ \E fault \in BOOLEAN :
       LET r == create_file(dirs, files, cwd, Program[pc].path,
                            DefaultContent, fault)
       IN  /\ r.err # "none"
           /\ files' = r.files
           /\ err' = r.err
           /\ Control(OnError(pc))
  /\ UNCHANGED <<dirs, cwd, chdirs>>

----------------------------------------------------------------------------
\* The callers

\* __main__: the call returned, the message is printed, the script ends.
PrintDone ==
  /\ harness = "script"
  /\ status = "returned"
  /\ printed' = printed + 1
  /\ status' = "exited"
  /\ exitcode' = 0
  /\ UNCHANGED <<dirs, files, cwd, harness, pc, err, runs, calls, writes,
                 base, dirs0, files0, chdirs, trace>>

\* The importing process ends without a further call.
CallerExit ==
  /\ harness = "caller"
  /\ status = "returned"
  /\ status' = "exited"
  /\ exitcode' = 0
  /\ UNCHANGED <<dirs, files, cwd, harness, pc, err, printed, runs, calls,
                 writes, base, dirs0, files0, chdirs, trace>>

\* Nothing catches the exception: the interpreter ends with status 1.
Abort ==
  /\ status = "raised"
  /\ status' = "exited"
  /\ exitcode' = 1
  /\ UNCHANGED <<dirs, files, cwd, harness, pc, err, printed, runs, calls,
                 writes, base, dirs0, files0, chdirs, trace>>

\* Scaffolded files another program may write into while the scaffolder is
\* not running.
WriteProbes ==
  { ProjectRoot \o <<"package.json">>,
    ProjectRoot \o <<"app", "api", "health", "route.ts">> }

ExternalWrite ==
  /\ status \in {"returned", "exited"}
  /\ exitcode # 1
  /\ writes < MaxWrites
  /\ \E p \in WriteProbes :
       /\ p \in DOMAIN files
       /\ files' = WriteW(files, p, OldContent)
  /\ writes' = writes + 1
  /\ UNCHANGED <<dirs, cwd, harness, status, pc, err, printed, exitcode,
                 runs, calls, base, dirs0, files0, chdirs, trace>>

Next ==
  \/ StartScript
  \/ StartCaller
  \/ CallAgain
  \/ CreateDirectory
  \/ CreateDirectoryRaise
  \/ ChangeDirectory
  \/ ChangeDirectoryRaise
  \/ CreateFile
  \/ CreateFileRaise
  \/ PrintDone
  \/ CallerExit
  \/ Abort
  \/ ExternalWrite

Spec == Init /\ [][Next]_vars

----------------------------------------------------------------------------
\* The tree the manifest describes, below the directory b a call starts in.

ManifestFilePaths ==
  { Manifest[i].path : i \in { j \in 1..Len(Manifest) : Manifest[j].op = "file" } }

ManifestDirPaths ==
  UNION { Prefixes(Manifest[i].path) :
            i \in { j \in 1..Len(Manifest) : Manifest[j].op = "mkdir" } }

TreeDirs(b) ==
  {b \o ProjectRoot} \cup { b \o ProjectRoot \o q : q \in ManifestDirPaths }

TreeFiles(b) == { b \o ProjectRoot \o f : f \in ManifestFilePaths }

\* f is the path of a file the call started in b passes to create_file.
IsTarget(f, b) ==
  LET root == b \o ProjectRoot
  IN  /\ Len(f) > Len(root)
      /\ SubSeq(f, 1, Len(root)) = root
      /\ SubSeq(f, Len(root) + 1, Len(f)) \in ManifestFilePaths

\* The last statement of create_project_structure returns.
Completes == status = "running" /\ status' = "returned"

\* The target of the call did not exist when the call started.
CleanTarget == ~Exists(dirs0, DOMAIN files0, base \o ProjectRoot)

HealthRoute == ProjectRoot \o <<"app", "api", "health", "route.ts">>

RegisterRoute ==
  ProjectRoot \o <<"app", "api", "client", "auth", "register", "route.ts">>

----------------------------------------------------------------------------
\* C1: a call that completes on a target without project-root adds exactly
\* project-root to the directory it starts in, below it exactly the
\* directories of the manifest with their ancestors and exactly the files of
\* the manifest, all empty, and leaves everything else as it was.
C1_CleanRunCreatesExactlyTheManifest ==
  [][ (Completes /\ CleanTarget) =>
        /\ dirs' = dirs0 \cup TreeDirs(base)
        /\ DOMAIN files' = DOMAIN files0 \cup TreeFiles(base)
        /\ dirs0 \cap TreeDirs(base) = {}
        /\ DOMAIN files0 \cap TreeFiles(base) = {}
        /\ \A f \in DOMAIN files0 : files'[f] = files0[f]
        /\ \A f \in TreeFiles(base) : files'[f] = DefaultContent
        /\ { p \in (dirs' \cup DOMAIN files') \ (dirs0 \cup DOMAIN files0) :
               Parent(p) = base } = {base \o ProjectRoot} ]_vars

C1_Witness ==
  /\ status = "returned"
  /\ CleanTarget
  /\ base = InvokingDir
  /\ DOMAIN files0 # {}
  /\ HealthRoute \in DOMAIN files /\ files[HealthRoute] = DefaultContent
  /\ RegisterRoute \in DOMAIN files /\ files[RegisterRoute] = DefaultContent

----------------------------------------------------------------------------
\* C2: a second run of the script from the same invoking directory, after a
\* run that completed, raises nothing but what the environment injects;
\* when it completes the directories and files are those the run started
\* with (those of the first run) and every manifest file is empty, whatever
\* was written into the files between the two runs.
C2_SecondRunIdempotent ==
  /\ [](harness = "script" /\ runs >= 2 => err \in {"none", "PermissionError"})
  /\ [][ (Completes /\ harness = "script" /\ runs >= 2) =>
           /\ dirs' = dirs0
           /\ DOMAIN files' = DOMAIN files0
           /\ TreeDirs(base) \subseteq dirs0
           /\ TreeFiles(base) \subseteq DOMAIN files0
           /\ \A f \in TreeFiles(base) : files'[f] = DefaultContent ]_vars

C2_Witness ==
  /\ harness = "script"
  /\ runs = 2
  /\ status = "exited"
  /\ exitcode = 0
  /\ \E f \in TreeFiles(InvokingDir) :
       f \in DOMAIN files0 /\ files0[f] = OldContent /\ files[f] = DefaultContent

----------------------------------------------------------------------------
\* C3: whenever a create_file statement is about to run, the parent
\* directory of its path exists and an earlier create_directory statement
\* names it as its path or as a prefix of its path; no statement ever fails
\* for a missing parent, and after the call every manifest file's parent
\* directory exists.
CwdAt(j) == IF j <= 2 THEN base ELSE base \o ProjectRoot

C3_ParentExistsBeforeFile ==
  /\ (status = "running" /\ pc \in 1..Len(Program) /\ Program[pc].op = "file") =>
       LET parent == Parent(Resolve(cwd, Program[pc].path))
       IN  /\ parent \in dirs
           /\ \E j \in 1..(pc - 1) :
                /\ Program[j].op = "mkdir"
                /\ parent \in { Resolve(CwdAt(j), q) : q \in Prefixes(Program[j].path) }
  /\ err # "FileNotFoundError"
  /\ (status = "returned") =>
       \A f \in TreeFiles(base) : Parent(f) \in dirs

C3_Witness ==
  /\ status = "running"
  /\ pc \in 1..Len(Program)
  /\ Program[pc] = [op |-> "file", path |-> <<"lib", "communication", "smtp.ts">>]
  /\ ProjectRoot \o <<"app", "globals.css">> \in DOMAIN files
  /\ ProjectRoot \o <<"lib", "database", "mongodb.ts">> \in DOMAIN files
  /\ ProjectRoot \o <<"lib", "realtime", "socket.ts">> \in DOMAIN files

----------------------------------------------------------------------------
\* C4: the statements run once each, in order; a statement that raises is
\* the last one attempted, it is attempted once, and from then on nothing of
\* the tree, the working directory or the position changes; what the
\* statements before it made is on disk when it raises.
Made(i, D, FN) ==
  LET p == Resolve(CwdAt(i), Program[i].path)
  IN  IF Program[i].op = "file" THEN p \in FN ELSE p \in D

C4_FirstFailureAborts ==
  /\ [](/\ trace = [i \in 1..Len(trace) |-> i]
        /\ Len(trace) = IF err = "none" THEN pc - 1 ELSE pc
        /\ err # "none" => status \in {"raised", "exited"}
        /\ status = "raised" => \A i \in 1..(pc - 1) : Made(i, dirs, DOMAIN files))
  /\ [][ /\ status = "raised" => UNCHANGED <<dirs, files, cwd, pc, trace, err>>
         /\ (status = "running" /\ status' = "raised") =>
              /\ dirs \subseteq dirs'
              /\ \A f \in DOMAIN files : f \in DOMAIN files' /\ files'[f] = files[f]
              /\ pc' = pc ]_vars

C4_Witness ==
  /\ status = "raised"
  /\ pc > 100
  /\ pc < Len(Program)
  /\ Program[pc].op = "file"

----------------------------------------------------------------------------
\* C5: a create_file statement that succeeds leaves its file existing with
\* exactly the content given, whatever the file held before or whether it
\* existed, and touches no other file; when a call completes every manifest
\* file is empty.
C5_CreateFileTruncates ==
  [][ /\ (Running("file") /\ status' # "raised") =>
           LET p == Resolve(cwd, Program[pc].path)
           IN  /\ DOMAIN files' = DOMAIN files \cup {p}
               /\ files'[p] = DefaultContent
               /\ \A f \in DOMAIN files \ {p} : files'[f] = files[f]
      /\ Completes =>
           \A f \in TreeFiles(base) : f \in DOMAIN files' /\ files'[f] = DefaultContent
    ]_vars

C5_Witness ==
  /\ status = "returned"
  /\ base = InvokingDir
  /\ ProjectRoot \o <<"package.json">> \in DOMAIN files0
  /\ files0[ProjectRoot \o <<"package.json">>] = OldContent
  /\ files[ProjectRoot \o <<"package.json">>] = DefaultContent

----------------------------------------------------------------------------
\* C6: a create_directory statement that succeeds leaves the path and all
\* its prefixes existing as directories and adds nothing else; on a path
\* that already is a directory it succeeds and changes nothing; on a path
\* that exists but is not a directory it raises FileExistsError; when the
\* path cannot be made the error reaches the caller, that is, the statement
\* passes control on only if the directory exists.
C6_CreateDirectoryEnsures ==
  [][ Running("mkdir") =>
        LET path == Program[pc].path
            p == Resolve(cwd, path)
        IN  /\ p \in dirs =>
                 /\ status' # "raised"
                 /\ err' = "none"
                 /\ dirs' = dirs
                 /\ files' = files
            /\ p \in DOMAIN files =>
                 /\ status' = "raised"
                 /\ err' = "FileExistsError"
                 /\ dirs' = dirs
                 /\ files' = files
            /\ status' # "raised" =>
                 /\ err' = "none"
                 /\ dirs' = dirs \cup { Resolve(cwd, q) : q \in Prefixes(path) }
                 /\ files' = files
            /\ status' = "raised" =>
                 /\ err' # "none"
                 /\ p \notin dirs'
                 /\ dirs \subseteq dirs'
                 /\ dirs' \subseteq dirs \cup { Resolve(cwd, q) : q \in Prefixes(path) }
    ]_vars

\* C6 as stated: create_directory succeeds, without error and without
\* changing anything, whenever the path already exists.
C6_SilentWheneverPathExists ==
  [][ (Running("mkdir") /\
       Exists(dirs, DOMAIN files, Resolve(cwd, Program[pc].path))) =>
        /\ status' # "raised"
        /\ err' = "none"
        /\ dirs' = dirs
        /\ files' = files ]_vars

\* A second run has passed create_directory("project-root") on the existing
\* root, and a first run made a path of several missing segments.
C6_Witness ==
  /\ harness = "script"
  /\ runs = 2
  /\ status = "running"
  /\ pc = 2
  /\ dirs = dirs0
  /\ ProjectRoot \o <<"app", "api", "client", "auth", "register">> \in dirs

----------------------------------------------------------------------------
\* C7: a script process prints the message at most once; it has printed it
\* exactly when it has ended with status 0, which it does exactly when every
\* statement succeeded; when a statement raised nothing is printed and the
\* process ends with status 1.
C7_MessageIffSuccess ==
  harness = "script" =>
    /\ printed \in {0, 1}
    /\ printed = 1 <=> (status = "exited" /\ exitcode = 0)
    /\ printed = 1 => (err = "none" /\ Len(trace) = Len(Program))
    /\ err # "none" => (printed = 0 /\ exitcode # 0)
    /\ status = "exited" => (exitcode = 1 <=> err # "none")
    /\ status = "exited" => exitcode \in {0, 1}

C7_Witness ==
  /\ harness = "script"
  /\ runs = 2
  /\ status = "exited"
  /\ exitcode = 1
  /\ printed = 0
  /\ pc > 2

----------------------------------------------------------------------------
\* C8: within a call the working directory changes once, at the second
\* statement, to project-root below the directory the call started in, which
\* exists by then; before that statement it is the starting directory, after
\* it it is project-root until the process ends, also when a later statement
\* raises.
C8_SingleChdir ==
  /\ [](status \in {"running", "returned", "raised", "exited"} =>
          /\ chdirs = IF pc > 2 THEN 1 ELSE 0
          /\ cwd = IF pc > 2 THEN base \o ProjectRoot ELSE base
          /\ pc > 2 => base \o ProjectRoot \in dirs)
  /\ [][ cwd' # cwd =>
           \/ /\ status = "running" /\ pc = 2 /\ Program[pc].op = "chdir"
              /\ cwd' = base \o ProjectRoot
              /\ chdirs = 0
           \/ runs' # runs ]_vars

C8_Witness ==
  /\ status = "exited"
  /\ exitcode = 1
  /\ pc > 2
  /\ cwd = InvokingDir \o ProjectRoot
  /\ chdirs = 1

----------------------------------------------------------------------------
\* C9: a second call in the same process starts in project-root, makes
\* project-root/project-root with the whole manifest below it, leaves the
\* working directory two levels below the invoking directory and leaves the
\* files of the first tree as they were when it started.
C9_SecondCallNests ==
  /\ [](harness = "caller" /\ calls = 2 => base = InvokingDir \o ProjectRoot)
  /\ [][ (Completes /\ harness = "caller" /\ calls = 2) =>
           /\ cwd' = InvokingDir \o ProjectRoot \o ProjectRoot
           /\ Len(cwd') = Len(InvokingDir) + 2
           /\ TreeDirs(InvokingDir \o ProjectRoot) \subseteq dirs'
           /\ TreeFiles(InvokingDir \o ProjectRoot) \subseteq DOMAIN files'
           /\ \A f \in TreeFiles(InvokingDir \o ProjectRoot) :
                files'[f] = DefaultContent
           /\ \A f \in TreeFiles(InvokingDir) :
                f \in DOMAIN files' /\ files'[f] = files0[f] ]_vars

C9_Witness ==
  /\ harness = "caller"
  /\ calls = 2
  /\ status = "returned"
  /\ cwd = ProjectRoot \o ProjectRoot
  /\ ProjectRoot \o ProjectRoot \notin dirs0
  /\ files0[ProjectRoot \o <<"package.json">>] = OldContent
  /\ files[ProjectRoot \o <<"package.json">>] = OldContent
  /\ files[ProjectRoot \o ProjectRoot \o <<"package.json">>] = DefaultContent

----------------------------------------------------------------------------
\* C10: while a call runs no step removes a directory or a file or changes
\* the content of a file that is not a create_file target of the call; so
\* every directory that existed when the call started exists, and every
\* such file exists with the content it had.
C10_NothingRemoved ==
  /\ [][ status = "running" =>
           /\ dirs \subseteq dirs'
           /\ DOMAIN files \subseteq DOMAIN files'
           /\ \A f \in DOMAIN files :
                files'[f] = files[f] \/ IsTarget(f, base)
       ]_vars
  /\ [](status \in {"running", "raised"} =>
          /\ dirs0 \subseteq dirs
          /\ \A f \in DOMAIN files0 :
               /\ f \in DOMAIN files
               /\ files[f] = files0[f] \/ IsTarget(f, base))

C10_Witness ==
  /\ status = "running"
  /\ pc = Len(Program)
  /\ base = InvokingDir
  /\ ProjectRoot \o <<"app">> \in dirs0
  /\ ProjectRoot \o <<"README.md">> \in DOMAIN files0
  /\ files[ProjectRoot \o <<"README.md">>] = OldContent

----------------------------------------------------------------------------
\* C11: no path given to create_file is the path, or a proper prefix of the
\* path, of any other statement after the change of directory, so no file
\* path is given twice or is also a directory; hence in a call on a target
\* without project-root the statement that is next can always succeed, and
\* a statement raises only when the environment fails it.
ManifestConsistent ==
  \A i \in 3..Len(Program) :
    Program[i].op = "file" =>
      \A j \in (3..Len(Program)) \ {i} :
        Program[i].path \notin Prefixes(Program[j].path)

\* The error the next statement raises when the environment fails nothing.
FaultFreeErr ==
  LET e == Program[pc]
  IN  IF e.op = "mkdir"
      THEN create_directory(dirs, DOMAIN files, cwd, e.path, Len(e.path)).err
      ELSE IF e.op = "file"
      THEN OpenW(dirs, DOMAIN files, Resolve(cwd, e.path), FALSE)
      ELSE Chdir(dirs, DOMAIN files, cwd, e.path, FALSE).err

C11_ManifestSelfConsistent ==
  /\ ManifestConsistent
  /\ (status = "running" /\ CleanTarget) => FaultFreeErr = "none"
  /\ (status \in {"raised", "exited"} /\ CleanTarget /\ err # "none") =>
       err = "PermissionError"

C11_Witness ==
  /\ status = "exited"
  /\ exitcode = 0
  /\ runs = 1
  /\ CleanTarget
  /\ Len(trace) = Len(Program)
  /\ err = "none"
====
